---- MODULE Spec2Model ----
(***************************************************************************)
(* The order engine of the cafeteria backend: the catalog table            *)
(* (menu_items), the orders table and the order_items table, and the HTTP  *)
(* handlers of routes/order_routes.py and routes/menu_routes.py that read  *)
(* and write them.                                                         *)
(*                                                                         *)
(* A handler is an operator from the persisted rows and the request to the *)
(* answer (status code, error) and the rows the request leaves persisted;  *)
(* the action of the handler applies it to the tables.  A request runs in  *)
(* its own database session, so what it leaves behind is what it committed.*)
(* Prices are whole numbers (cents).                                       *)
(*                                                                         *)
(* Requests served at the same time are followed in two steps: the step in *)
(* which the handler reads, and the step in which its session commits.     *)
(***************************************************************************)
EXTENDS Integers, Sequences, FiniteSets, TLC

VARIABLES
    menu,     \* table menu_items : id -> [name, description, price, category,
              \*                           is_available, stock_quantity]
    orders,   \* table orders     : id -> [user_id, status, completed_at,
              \*                           admin_notes, is_paid, payment_method]
    lines,    \* table order_items: id -> [order_id, menu_item_id, quantity, unit_price]
    requests  \* the requests between their reads and their commit: what the
              \* session of each holds

vars == <<menu, orders, lines, requests>>

\* ------------------------------------------------------------------ bounds

\* rows the menu_items table may hold
MaxMenu == 1
\* rows the order_items table may hold
MaxLines == 1
\* the largest quantity a line may accumulate
MaxLineQty == 3

\* The ids the orders table may hold: one order is followed from its creation
\* to its deletion (orders share nothing but the catalog).
OrderIds == {1}

\* The ids the orders table may hold where orders of several users are read.
AccessOrderIds == {1, 2}

\* ------------------------------------------------------------- HTTP status

Ok == 200
Created == 201
BadRequest == 400
Forbidden == 403
NotFound == 404
InternalError == 500

\* ------------------------------------------------------------------- users

\* The accounts that send requests: one plain user, one staff member, one admin.
UserIds == {1, 2, 3}

\* The accounts, with a second plain user.
AllUserIds == UserIds \cup {4}

\* The role claim of the caller's token.
role(u) == CASE u = 2 -> "staff" [] u = 3 -> "admin" [] OTHER -> "user"

\* ------------------------------------------------------------------ values

\* SQL NULL / Python None in a text column.
None == "<none>"
\* A field that the JSON body does not carry.
Absent == "<absent>"
\* SQL NULL in completed_at; timestamps are positive.
NoTime == 0
\* What .first() returns when no row matches.
NoRow == 0

valid_statuses == {"pending", "confirmed", "preparing", "ready", "completed", "cancelled"}

\* A validation that ignores the case of the first letter.
validate_status_ignoring_case(status) == status \in valid_statuses \cup {"Pending"}

\* Order.validate_status
validate_status(status) == status \in valid_statuses

\* ------------------------------------------------------------------ tables

EmptyTable == [i \in {} |-> 0]

Max(S) == CHOOSE x \in S : \A y \in S : y <= x

\* The id an INTEGER PRIMARY KEY column gives a new row: one more than the largest.
NewId(table) == IF DOMAIN table = {} THEN 1 ELSE Max(DOMAIN table) + 1

Insert(table, row) == table @@ (NewId(table) :> row)

Delete(table, ids) == [i \in DOMAIN table \ ids |-> table[i]]

\* The persisted rows.
Database(m, o, l) == [menu |-> m, orders |-> o, lines |-> l]

Current == Database(menu, orders, lines)

\* Order.items: the lines whose order_id is the order.
items(db, order_id) == {l \in DOMAIN db.lines : db.lines[l].order_id = order_id}

\* ------------------------------------------------------------------ totals

\* OrderItem.subtotal, were it computed from the catalog price at read time.
subtotal_at_catalog_price(db, l) ==
    db.lines[l].quantity * db.menu[db.lines[l].menu_item_id].price

\* OrderItem.subtotal
subtotal(db, l) == db.lines[l].quantity * db.lines[l].unit_price

RECURSIVE sum_subtotals(_, _)
sum_subtotals(db, ids) ==
    IF ids = {} THEN 0
    ELSE LET l == CHOOSE x \in ids : TRUE
         IN  subtotal(db, l) + sum_subtotals(db, ids \ {l})

\* Order.calculate_total
calculate_total(db, order_id) == sum_subtotals(db, items(db, order_id))

\* total_price of Order.to_dict
total_price(db, order_id) == calculate_total(db, order_id)

\* ------------------------------------------------------------------ session

\* db.session.commit(): the session's rows become the persisted rows.
commit(committed, session) == session

\* A rollback that keeps what the request has flushed so far.
rollback_keeps_flushed(committed, session) == session

\* db.session.rollback(): everything added or flushed in the request is dropped.
rollback(committed, session) == committed

\* What a handler answers and leaves persisted.
Result(code, error, db) == [code |-> code, error |-> error, db |-> db]

\* ----------------------------------------------------------------- catalog

\* 'field' in data, for a JSON body held as a record.
has(data, field) == field \in DOMAIN data

\* data.get(field, default)
get(data, field, default) == IF has(data, field) THEN data[field] ELSE default

\* str.lower() on the strings the requests carry.
lower(str) ==
    CASE str = "True" -> "true"
      [] str = "False" -> "false"
      [] str = "Food" -> "food"
      [] str = "Desserts" -> "desserts"
      [] OTHER -> str

valid_categories == {"beverages", "food", "snacks", "desserts"}

\* A validate_category that accepts any category.
validate_category_any(category) == category = category

\* MenuItem.validate_category
validate_category(category) == lower(category) \in valid_categories

\* price < 0, on price = float(data['price'])
price_negative(price) == price < 0

\* POST /api/menu (admin only); data carries name, price and category, and
\* may carry description, is_available and stock_quantity.
create_menu_item(db, u, data) ==
    IF role(u) # "admin"
    THEN Result(Forbidden, "admin_required", db)
    ELSE IF ~(has(data, "name") /\ has(data, "price") /\ has(data, "category"))
    THEN Result(BadRequest, "fields_required", db)
    ELSE IF price_negative(data.price)
    THEN Result(BadRequest, "price_negative", db)
    ELSE IF ~validate_category(lower(data.category))
    THEN Result(BadRequest, "invalid_category", db)
    ELSE Result(Created, "",
                commit(db,
                       [db EXCEPT !.menu =
                           Insert(@, [name |-> data.name,
                                      description |-> get(data, "description", None),
                                      price |-> data.price,
                                      category |-> lower(data.category),
                                      is_available |-> get(data, "is_available", TRUE),
                                      stock_quantity |-> get(data, "stock_quantity", 0)])]))

\* A request's end that keeps what its session holds uncommitted.
remove_session_keeps(committed, session) == session

\* The end of a request: the session of the request is removed, and what it
\* holds uncommitted is dropped with it.
remove_session(committed, session) == committed

\* item.name and item.description, each assigned when the body carries it.
set_name_description(db, item_id, data) ==
    [db EXCEPT !.menu[item_id] =
                   [@ EXCEPT !.name = get(data, "name", @),
                             !.description = get(data, "description", @)]]

\* item.price = price, when the body carries a price.
set_price(db, item_id, data) ==
    [db EXCEPT !.menu[item_id].price = IF data.has_price THEN data.price ELSE @]

\* item.category = category, when the body carries a category.
set_category(db, item_id, data) ==
    [db EXCEPT !.menu[item_id].category =
                   IF has(data, "category") THEN lower(data.category) ELSE @]

\* item.is_available and item.stock_quantity, each assigned when the body
\* carries it.
set_available_stock(db, item_id, data) ==
    [db EXCEPT !.menu[item_id] =
                   [@ EXCEPT !.is_available = IF data.has_is_available
                                              THEN data.is_available ELSE @,
                             !.stock_quantity = get(data, "stock_quantity", @)]]

\* The field assignments of update_menu_item, were a new price also written to
\* the lines that reference the item.
update_fields_reprices(db, item_id, data) ==
    [set_available_stock(
         set_category(
             set_price(set_name_description(db, item_id, data), item_id, data),
             item_id, data),
         item_id, data)
     EXCEPT !.lines = [l \in DOMAIN db.lines |->
                          IF data.has_price /\ db.lines[l].menu_item_id = item_id
                          THEN [db.lines[l] EXCEPT !.unit_price = data.price]
                          ELSE db.lines[l]]]

\* The field assignments of update_menu_item, in the handler's order.
update_fields(db, item_id, data) ==
    set_available_stock(
        set_category(
            set_price(set_name_description(db, item_id, data), item_id, data),
            item_id, data),
        item_id, data)

\* PUT /api/menu/<item_id> (staff or admin); data = [has_price, price,
\* has_is_available, is_available] and may carry name, description, category
\* and stock_quantity.  A failing check returns at once, after the assignments
\* above it and without a rollback.
update_menu_item(db, u, item_id, data) ==
    IF role(u) \notin {"staff", "admin"}
    THEN Result(Forbidden, "staff_or_admin_required", db)
    ELSE IF item_id \notin DOMAIN db.menu
    THEN Result(NotFound, "menu_item_not_found", db)
    ELSE IF data.has_price /\ price_negative(data.price)
    THEN Result(BadRequest, "price_negative",
                remove_session(db, set_name_description(db, item_id, data)))
    ELSE IF has(data, "category") /\ ~validate_category(lower(data.category))
    THEN Result(BadRequest, "invalid_category",
                remove_session(db, set_price(set_name_description(db, item_id, data),
                                             item_id, data)))
    ELSE Result(Ok, "", commit(db, update_fields(db, item_id, data)))

\* PATCH /api/menu/<item_id>/availability (staff or admin);
\* data = [has_is_available, is_available].
toggle_availability(db, u, item_id, data) ==
    IF role(u) \notin {"staff", "admin"}
    THEN Result(Forbidden, "staff_or_admin_required", db)
    ELSE IF item_id \notin DOMAIN db.menu
    THEN Result(NotFound, "menu_item_not_found", db)
    ELSE IF ~data.has_is_available
    THEN Result(BadRequest, "is_available_required", db)
    ELSE Result(Ok, "", [db EXCEPT !.menu[item_id].is_available = data.is_available])

\* The lines that reference the menu item (MenuItem.order_items).
order_items(db, item_id) == {l \in DOMAIN db.lines : db.lines[l].menu_item_id = item_id}

\* A delete_menu_item that staff may call like admin.
delete_menu_item_or_staff(db, u, item_id) ==
    IF role(u) \notin {"staff", "admin"}
    THEN Result(Forbidden, "admin_required", db)
    ELSE IF item_id \notin DOMAIN db.menu
    THEN Result(NotFound, "menu_item_not_found", db)
    ELSE IF order_items(db, item_id) # {}
    THEN Result(InternalError, "integrity_error", rollback(db, db))
    ELSE Result(Ok, "", [db EXCEPT !.menu = Delete(@, {item_id})])

\* DELETE /api/menu/<item_id> (admin only).  MenuItem.order_items has no delete
\* cascade, so the flush first sets menu_item_id of the lines that reference
\* the item to NULL; the column is NOT NULL, the commit raises and the handler
\* rolls back and answers 500.
delete_menu_item(db, u, item_id) ==
    IF role(u) # "admin"
    THEN Result(Forbidden, "admin_required", db)
    ELSE IF item_id \notin DOMAIN db.menu
    THEN Result(NotFound, "menu_item_not_found", db)
    ELSE IF order_items(db, item_id) # {}
    THEN Result(InternalError, "integrity_error", rollback(db, db))
    ELSE Result(Ok, "", [db EXCEPT !.menu = Delete(@, {item_id})])

\* ------------------------------------------------------------------ orders

\* Order(user_id=..., status='pending') with the column defaults.
new_order(user_id) ==
    [user_id |-> user_id, status |-> "pending", completed_at |-> NoTime,
     admin_notes |-> None, is_paid |-> FALSE, payment_method |-> None]

\* OrderItem(order_id, menu_item_id, quantity, unit_price=menu_item.price)
new_order_item(db, order_id, menu_item_id, quantity) ==
    [order_id |-> order_id, menu_item_id |-> menu_item_id,
     quantity |-> quantity, unit_price |-> db.menu[menu_item_id].price]

\* A quantity check that lets zero through.
quantity_rejected_below_zero(quantity) == quantity < 0

\* quantity <= 0, on quantity = int(...): "Quantity must be positive"
quantity_rejected(quantity) == quantity <= 0

\* 409 Conflict, which no handler answers.
conflict_code == 400 + 9

\* The status code create_order answers for a line whose item is unavailable.
unavailable_code == BadRequest

\* The loop of create_order over data['items'], in order: the first entry that
\* fails rolls the session back and returns; after the last entry the session is
\* committed.  An entry is [has_fields, menu_item_id, quantity].
RECURSIVE create_order_items(_, _, _, _)
create_order_items(committed, session, order_id, entries) ==
    IF entries = << >>
    THEN Result(Created, "", commit(committed, session))
    ELSE LET item_data == Head(entries) IN
         IF ~item_data.has_fields
         THEN Result(BadRequest, "item_fields_required", rollback(committed, session))
         ELSE IF item_data.menu_item_id \notin DOMAIN session.menu
         THEN Result(NotFound, "menu_item_not_found", rollback(committed, session))
         ELSE IF ~session.menu[item_data.menu_item_id].is_available
         THEN Result(unavailable_code, "unavailable", rollback(committed, session))
         ELSE IF quantity_rejected(item_data.quantity)
         THEN Result(BadRequest, "quantity_not_positive", rollback(committed, session))
         ELSE create_order_items(
                  committed,
                  [session EXCEPT !.lines =
                      Insert(@, new_order_item(session, order_id,
                                               item_data.menu_item_id,
                                               item_data.quantity))],
                  order_id,
                  Tail(entries))

\* A create_order that takes one unit of stock from every item it orders.
create_order_taking_stock(db, u, entries) ==
    IF entries = << >>
    THEN Result(BadRequest, "items_required", db)
    ELSE LET r == create_order_items(db,
                                     [db EXCEPT !.orders = Insert(@, new_order(u))],
                                     NewId(db.orders),
                                     entries)
         IN  IF r.code # Created
             THEN r
             ELSE [r EXCEPT !.db.menu =
                      [m \in DOMAIN @ |->
                          IF \E i \in 1..Len(entries) : entries[i].menu_item_id = m
                          THEN [@[m] EXCEPT !.stock_quantity = @ - 1]
                          ELSE @[m]]]

\* POST /api/orders; entries = data['items'].
create_order(db, u, entries) ==
    IF entries = << >>
    THEN Result(BadRequest, "items_required", db)
    ELSE create_order_items(db,
                            [db EXCEPT !.orders = Insert(@, new_order(u))],
                            NewId(db.orders),
                            entries)

\* OrderItem.query.filter_by(order_id=..., menu_item_id=...).first(): the query
\* names no order, so any matching row may come first; NoRow when none matches.
existing_item_first(db, order_id, menu_item_id) ==
    LET matching == {l \in items(db, order_id) : db.lines[l].menu_item_id = menu_item_id}
    IN  IF matching = {} THEN {NoRow} ELSE matching

\* An increment that also takes the item's current catalog price.
add_to_existing_resnapshot(db, existing_item, quantity) ==
    [db.lines[existing_item] EXCEPT
        !.quantity = @ + quantity,
        !.unit_price = db.menu[db.lines[existing_item].menu_item_id].price]

\* existing_item.quantity += quantity: the row of the line afterwards.
add_to_existing(db, existing_item, quantity) ==
    [db.lines[existing_item] EXCEPT !.quantity = @ + quantity]

\* A guard that closes only completed and cancelled orders.
can_modify_unless_closed(order) == order.status \notin {"completed", "cancelled"}

\* "Can only modify pending orders"
can_modify(order) == order.status = "pending"

\* An add_order_item that staff and admin may also call on any order.
add_order_item_or_staff(db, u, order_id, data, existing_item) ==
    IF order_id \notin DOMAIN db.orders
    THEN Result(NotFound, "order_not_found", db)
    ELSE IF db.orders[order_id].user_id # u /\ role(u) \notin {"staff", "admin"}
    THEN Result(Forbidden, "access_denied", db)
    ELSE IF ~can_modify(db.orders[order_id])
    THEN Result(BadRequest, "not_pending", db)
    ELSE IF ~data.has_fields
    THEN Result(BadRequest, "fields_required", db)
    ELSE IF data.menu_item_id \notin DOMAIN db.menu
    THEN Result(NotFound, "menu_item_not_found", db)
    ELSE IF ~db.menu[data.menu_item_id].is_available
    THEN Result(BadRequest, "unavailable", db)
    ELSE IF data.quantity <= 0
    THEN Result(BadRequest, "quantity_not_positive", db)
    ELSE IF existing_item # NoRow
    THEN Result(Ok, "", [db EXCEPT !.lines[existing_item] =
                                       add_to_existing(db, existing_item, data.quantity)])
    ELSE Result(Ok, "", [db EXCEPT !.lines =
                            Insert(@, new_order_item(db, order_id, data.menu_item_id,
                                                     data.quantity))])

\* POST /api/orders/<order_id>/items; data = [has_fields, menu_item_id, quantity];
\* existing_item is the row the lookup returned.
add_order_item(db, u, order_id, data, existing_item) ==
    IF order_id \notin DOMAIN db.orders
    THEN Result(NotFound, "order_not_found", db)
    ELSE IF db.orders[order_id].user_id # u
    THEN Result(Forbidden, "access_denied", db)
    ELSE IF ~can_modify(db.orders[order_id])
    THEN Result(BadRequest, "not_pending", db)
    ELSE IF ~data.has_fields
    THEN Result(BadRequest, "fields_required", db)
    ELSE IF data.menu_item_id \notin DOMAIN db.menu
    THEN Result(NotFound, "menu_item_not_found", db)
    ELSE IF ~db.menu[data.menu_item_id].is_available
    THEN Result(BadRequest, "unavailable", db)
    ELSE IF quantity_rejected(data.quantity)
    THEN Result(BadRequest, "quantity_not_positive", db)
    ELSE IF existing_item # NoRow
    THEN Result(Ok, "", [db EXCEPT !.lines[existing_item] =
                                       add_to_existing(db, existing_item, data.quantity)])
    ELSE Result(Ok, "", [db EXCEPT !.lines =
                            Insert(@, new_order_item(db, order_id, data.menu_item_id,
                                                     data.quantity))])

\* DELETE /api/orders/<order_id>/items/<item_id>
remove_order_item(db, u, order_id, item_id) ==
    IF order_id \notin DOMAIN db.orders
    THEN Result(NotFound, "order_not_found", db)
    ELSE IF db.orders[order_id].user_id # u
    THEN Result(Forbidden, "access_denied", db)
    ELSE IF ~can_modify(db.orders[order_id])
    THEN Result(BadRequest, "not_pending", db)
    ELSE IF item_id \notin DOMAIN db.lines \/ db.lines[item_id].order_id # order_id
    THEN Result(NotFound, "order_item_not_found", db)
    ELSE Result(Ok, "", [db EXCEPT !.lines = Delete(@, {item_id})])

\* Assignments that leave a completed or cancelled order as it is.
set_status_unless_terminal(order, data, now) ==
    IF order.status \in {"completed", "cancelled"}
    THEN order
    ELSE [order EXCEPT
             !.status = data.status,
             !.completed_at = IF data.status = "completed" THEN now ELSE @,
             !.admin_notes = IF data.has_admin_notes THEN data.admin_notes ELSE @]

\* Assignments that never write completed_at.
set_status_without_stamp(order, data, now) ==
    [order EXCEPT !.status = data.status,
                  !.admin_notes = IF data.has_admin_notes THEN data.admin_notes ELSE @]

\* Assignments that clear completed_at when the new status is not completed.
set_status_clears(order, data, now) ==
    [order EXCEPT !.status = data.status,
                  !.completed_at = IF data.status = "completed" THEN now ELSE NoTime,
                  !.admin_notes = IF data.has_admin_notes THEN data.admin_notes ELSE @]

\* The place of a status in the lifecycle pending -> confirmed -> preparing ->
\* ready -> completed, cancelled closing it like completed.
Stage(status) ==
    CASE status = "pending" -> 1
      [] status = "confirmed" -> 2
      [] status = "preparing" -> 3
      [] status = "ready" -> 4
      [] OTHER -> 5

\* Assignments that leave the order as it is when the new status is an earlier
\* stage than the current one.
set_status_forward_only(order, data, now) ==
    IF Stage(data.status) < Stage(order.status)
    THEN order
    ELSE [order EXCEPT
             !.status = data.status,
             !.completed_at = IF data.status = "completed" THEN now ELSE @,
             !.admin_notes = IF data.has_admin_notes THEN data.admin_notes ELSE @]

\* The assignments of update_order_status to the order, for an accepted request;
\* data = [has_status, status, has_admin_notes, admin_notes], now = the clock.
set_status(order, data, now) ==
    [order EXCEPT !.status = data.status,
                  !.completed_at = IF data.status = "completed" THEN now ELSE @,
                  !.admin_notes = IF data.has_admin_notes THEN data.admin_notes ELSE @]

\* An update_order_status that the owner of the order may also call.
update_order_status_or_owner(db, u, order_id, data, now) ==
    IF /\ role(u) \notin {"staff", "admin"}
       /\ ~(order_id \in DOMAIN db.orders /\ db.orders[order_id].user_id = u)
    THEN Result(Forbidden, "staff_or_admin_required", db)
    ELSE IF order_id \notin DOMAIN db.orders
    THEN Result(NotFound, "order_not_found", db)
    ELSE IF ~data.has_status
    THEN Result(BadRequest, "status_required", db)
    ELSE IF ~validate_status(data.status)
    THEN Result(BadRequest, "invalid_status", db)
    ELSE Result(Ok, "", [db EXCEPT !.orders[order_id] = set_status(@, data, now)])

\* PATCH /api/orders/<order_id>/status (staff or admin)
update_order_status(db, u, order_id, data, now) ==
    IF role(u) \notin {"staff", "admin"}
    THEN Result(Forbidden, "staff_or_admin_required", db)
    ELSE IF order_id \notin DOMAIN db.orders
    THEN Result(NotFound, "order_not_found", db)
    ELSE IF ~data.has_status
    THEN Result(BadRequest, "status_required", db)
    ELSE IF ~validate_status(data.status)
    THEN Result(BadRequest, "invalid_status", db)
    ELSE Result(Ok, "", [db EXCEPT !.orders[order_id] = set_status(@, data, now)])

\* A payment update that is refused once the order is cancelled.
update_payment_status_unless_cancelled(db, u, order_id, data) ==
    IF role(u) \notin {"staff", "admin"}
    THEN Result(Forbidden, "staff_or_admin_required", db)
    ELSE IF order_id \notin DOMAIN db.orders
    THEN Result(NotFound, "order_not_found", db)
    ELSE IF ~data.has_is_paid
    THEN Result(BadRequest, "is_paid_required", db)
    ELSE IF db.orders[order_id].status = "cancelled"
    THEN Result(BadRequest, "cancelled", db)
    ELSE Result(Ok, "",
                [db EXCEPT !.orders[order_id].is_paid = data.is_paid,
                           !.orders[order_id].payment_method =
                               IF data.payment_method # Absent
                               THEN data.payment_method ELSE @])

\* PATCH /api/orders/<order_id>/payment (staff or admin);
\* data = [has_is_paid, is_paid, payment_method], payment_method Absent when not sent.
update_payment_status(db, u, order_id, data) ==
    IF role(u) \notin {"staff", "admin"}
    THEN Result(Forbidden, "staff_or_admin_required", db)
    ELSE IF order_id \notin DOMAIN db.orders
    THEN Result(NotFound, "order_not_found", db)
    ELSE IF ~data.has_is_paid
    THEN Result(BadRequest, "is_paid_required", db)
    ELSE Result(Ok, "",
                [db EXCEPT !.orders[order_id].is_paid = data.is_paid,
                           !.orders[order_id].payment_method =
                               IF data.payment_method # Absent
                               THEN data.payment_method ELSE @])

\* A delete_order that staff may call like admin.
delete_order_or_staff(db, u, order_id) ==
    IF order_id \notin DOMAIN db.orders
    THEN Result(NotFound, "order_not_found", db)
    ELSE IF role(u) \notin {"staff", "admin"} /\ db.orders[order_id].user_id # u
    THEN Result(Forbidden, "access_denied", db)
    ELSE IF role(u) \notin {"staff", "admin"} /\ db.orders[order_id].status # "pending"
    THEN Result(BadRequest, "not_pending", db)
    ELSE Result(Ok, "", [db EXCEPT !.orders = Delete(@, {order_id}),
                                   !.lines = Delete(@, items(db, order_id))])

\* A delete_order without the cascade to the lines.
delete_order_keeps_lines(db, u, order_id) ==
    IF order_id \notin DOMAIN db.orders
    THEN Result(NotFound, "order_not_found", db)
    ELSE IF role(u) # "admin" /\ db.orders[order_id].user_id # u
    THEN Result(Forbidden, "access_denied", db)
    ELSE IF role(u) # "admin" /\ db.orders[order_id].status # "pending"
    THEN Result(BadRequest, "not_pending", db)
    ELSE Result(Ok, "", [db EXCEPT !.orders = Delete(@, {order_id})])

\* DELETE /api/orders/<order_id>; the order's lines go with it (cascade).
delete_order(db, u, order_id) ==
    IF order_id \notin DOMAIN db.orders
    THEN Result(NotFound, "order_not_found", db)
    ELSE IF role(u) # "admin" /\ db.orders[order_id].user_id # u
    THEN Result(Forbidden, "access_denied", db)
    ELSE IF role(u) # "admin" /\ db.orders[order_id].status # "pending"
    THEN Result(BadRequest, "not_pending", db)
    ELSE Result(Ok, "", [db EXCEPT !.orders = Delete(@, {order_id}),
                                   !.lines = Delete(@, items(db, order_id))])

\* ------------------------------------------------------------------- reads

\* config.py
ITEMS_PER_PAGE == 20
MAX_ITEMS_PER_PAGE == 100

\* What a read answers: the status code and the orders of the body, in order.
Answer(code, disclosed) == [code |-> code, orders |-> disclosed]

\* A get_order without the check of the caller.
get_order_unchecked(db, u, order_id) ==
    IF order_id \notin DOMAIN db.orders
    THEN Answer(NotFound, << >>)
    ELSE Answer(Ok, <<order_id>>)

\* GET /api/orders/<order_id>
get_order(db, u, order_id) ==
    IF order_id \notin DOMAIN db.orders
    THEN Answer(NotFound, << >>)
    ELSE IF role(u) \notin {"admin", "staff"} /\ db.orders[order_id].user_id # u
    THEN Answer(Forbidden, << >>)
    ELSE Answer(Ok, <<order_id>>)

\* order_by(Order.created_at.desc()): newest first; an order created later has
\* the larger id.
RECURSIVE order_by_created_at_desc(_)
order_by_created_at_desc(ids) ==
    IF ids = {} THEN << >>
    ELSE <<Max(ids)>> \o order_by_created_at_desc(ids \ {Max(ids)})

\* utils.pagination.paginate: the rows of the page, per_page capped at
\* MAX_ITEMS_PER_PAGE and page raised to 1.
paginate(query, page, per_page) ==
    LET capped == IF per_page < MAX_ITEMS_PER_PAGE THEN per_page ELSE MAX_ITEMS_PER_PAGE
        p == IF page > 1 THEN page ELSE 1
        last == IF p * capped < Len(query) THEN p * capped ELSE Len(query)
    IN  SubSeq(query, (p - 1) * capped + 1, last)

\* The filters of get_orders after the scope of the caller: status, is_paid.
filter_by_status_and_payment(db, ids, args) ==
    {o \in ids :
        /\ args.status # Absent => db.orders[o].status = args.status
        /\ args.is_paid # Absent => db.orders[o].is_paid = (lower(args.is_paid) = "true")}

\* A get_orders that applies the user_id filter for every caller.
get_orders_trusting_filter(db, u, args) ==
    LET scoped == IF args.user_id # 0
                  THEN {o \in DOMAIN db.orders : db.orders[o].user_id = args.user_id}
                  ELSE IF role(u) \notin {"admin", "staff"}
                  THEN {o \in DOMAIN db.orders : db.orders[o].user_id = u}
                  ELSE DOMAIN db.orders
    IN  IF args.status # Absent /\ ~validate_status(args.status)
        THEN Answer(BadRequest, << >>)
        ELSE Answer(Ok, paginate(order_by_created_at_desc(
                                     filter_by_status_and_payment(db, scoped, args)),
                                 args.page, args.per_page))

\* GET /api/orders; args = [user_id, status, is_paid, page, per_page] of the
\* query string: user_id 0 when it is not sent (0 itself is no filter either),
\* status and is_paid Absent when not sent.
get_orders(db, u, args) ==
    LET scoped == IF role(u) \notin {"admin", "staff"}
                  THEN {o \in DOMAIN db.orders : db.orders[o].user_id = u}
                  ELSE IF args.user_id # 0
                  THEN {o \in DOMAIN db.orders : db.orders[o].user_id = args.user_id}
                  ELSE DOMAIN db.orders
    IN  IF args.status # Absent /\ ~validate_status(args.status)
        THEN Answer(BadRequest, << >>)
        ELSE Answer(Ok, paginate(order_by_created_at_desc(
                                     filter_by_status_and_payment(db, scoped, args)),
                                 args.page, args.per_page))

\* ------------------------------------------------------------ OrderHandler

\* What a method of OrderHandler (order.py) leaves persisted, and the exception
\* it raised, None when it returned.
Outcome(exception, db) == [exception |-> exception, db |-> db]

\* A remove_item that deletes the line only when the quantity exceeds the line's.
remove_item_when_greater(db, order_id, data, item) ==
    IF order_id \notin DOMAIN db.orders
    THEN Outcome("ValueError", db)
    ELSE IF item = NoRow
    THEN Outcome("ValueError", db)
    ELSE IF ~data.has_quantity \/ data.quantity > db.lines[item].quantity
    THEN Outcome(None, [db EXCEPT !.lines = Delete(@, {item})])
    ELSE Outcome(None, [db EXCEPT !.lines[item].quantity = @ - data.quantity])

\* OrderHandler.remove_item(order_id, menu_item_id, quantity=None);
\* data = [menu_item_id, has_quantity, quantity], item is the row the lookup
\* filter_by(order_id, menu_item_id).first() returned.
remove_item(db, order_id, data, item) ==
    IF order_id \notin DOMAIN db.orders
    THEN Outcome("ValueError", db)
    ELSE IF item = NoRow
    THEN Outcome("ValueError", db)
    ELSE IF ~data.has_quantity \/ data.quantity >= db.lines[item].quantity
    THEN Outcome(None, [db EXCEPT !.lines = Delete(@, {item})])
    ELSE Outcome(None, [db EXCEPT !.lines[item].quantity = @ - data.quantity])

\* ------------------------------------------------------------------ inputs

\* Prices a catalog request may carry (one of them negative).
PriceInputs == {-1, 1, 2}

\* Menu item ids a request may name, the ids the menu_items table may hold; one
\* of them at least is not in the table.
MenuIdInputs == 1..(MaxMenu + 1)

\* Order ids a request may name; the largest one is never in the table.
OrderIdInputs == OrderIds \cup {Max(OrderIds) + 1}

\* Line ids a request may name, the ids the order_items table may hold; one of
\* them at least is not in the table.
LineIdInputs == 1..(MaxLines + 1)

\* Quantities a request may carry (one of them not positive).
QuantityInputs == {0, 1, 2}

\* The body of create_menu_item, of one name and one category.
CreateMenuData ==
    [name : {"tea"}, price : PriceInputs, category : {"food"}, is_available : BOOLEAN]

\* The body that creates an available item of price 1 with five in stock.
StockedItem ==
    [name |-> "tea", price |-> 1, category |-> "food", is_available |-> TRUE,
     stock_quantity |-> 5]

\* The body that creates an available item of price 1.
PlainItem == [name |-> "tea", price |-> 1, category |-> "food", is_available |-> TRUE]

UpdateMenuData ==
    [has_price : {TRUE}, price : PriceInputs,
     has_is_available : {TRUE}, is_available : BOOLEAN]
    \cup [has_price : {TRUE}, price : PriceInputs,
          has_is_available : {FALSE}, is_available : {FALSE}]
    \cup [has_price : {FALSE}, price : {0},
          has_is_available : BOOLEAN, is_available : {FALSE}]
    \cup {[has_price |-> FALSE, price |-> 0,
           has_is_available |-> TRUE, is_available |-> TRUE]}

\* The body of create_menu_item in full: a negative price, a category in
\* capitals and an unknown one, a body without category, and the optional
\* fields.
CatalogCreateData ==
    [name : {"tea"}, price : {-1, 1}, category : {"food", "Food", "drinks"}]
    \cup {[name |-> "tea", price |-> 1],
          [name |-> "tea", price |-> 1, category |-> "food", description |-> "hot",
           is_available |-> FALSE, stock_quantity |-> 5]}

\* The body of update_menu_item in full: each field alone, and name and
\* description together with a price or a category, valid or not.
CatalogUpdateData ==
    LET Bare == [has_price |-> FALSE, price |-> 0,
                 has_is_available |-> FALSE, is_available |-> FALSE]
        Priced(p) == [Bare EXCEPT !.has_price = TRUE, !.price = p]
        Named(d) == d @@ [name |-> "chai", description |-> "iced"]
    IN  {Bare, Priced(2), Priced(-1),
         [Bare EXCEPT !.has_is_available = TRUE, !.is_available = TRUE],
         Bare @@ [stock_quantity |-> 0],
         Bare @@ [name |-> "tea"],
         Bare @@ [description |-> None],
         Bare @@ [category |-> "Food"],
         Bare @@ [category |-> "snacks"],
         Bare @@ [category |-> "Desserts"],
         Bare @@ [category |-> "drinks"],
         Named(Priced(1)), Named(Priced(-1)),
         Named(Priced(1)) @@ [category |-> "drinks"],
         Named(Bare) @@ [category |-> "drinks"]}

AvailabilityData ==
    [has_is_available : {TRUE}, is_available : BOOLEAN]
    \cup {[has_is_available |-> FALSE, is_available |-> FALSE]}

\* One entry of data['items'], or the body of add_order_item.
ItemData ==
    [has_fields : {TRUE}, menu_item_id : MenuIdInputs, quantity : QuantityInputs]
    \cup {[has_fields |-> FALSE, menu_item_id |-> 1, quantity |-> 1]}

\* data['items'] of create_order: none, one or two entries.
ItemLists == {<< >>} \cup {<<a>> : a \in ItemData} \cup {<<a, b>> : a, b \in ItemData}

\* The body of update_order_status with its status among `statuses`, or without one.
StatusData(statuses, notes) ==
    [has_status : {TRUE}, status : statuses,
     has_admin_notes : {FALSE}, admin_notes : {None}]
    \cup [has_status : {TRUE}, status : statuses,
          has_admin_notes : {TRUE}, admin_notes : notes]
    \cup {[has_status |-> FALSE, status |-> "pending",
           has_admin_notes |-> FALSE, admin_notes |-> None]}

\* The body of update_payment_status with its payment_method among `methods`,
\* or without is_paid.
PaymentData(methods) ==
    [has_is_paid : {TRUE}, is_paid : BOOLEAN, payment_method : methods]
    \cup {[has_is_paid |-> FALSE, is_paid |-> FALSE, payment_method |-> Absent]}

\* Statuses an update_order_status request may carry (two of them invalid).
StatusValues == valid_statuses \cup {"invalid_status", "Pending"}

\* admin_notes an update_order_status request may carry.
NoteValues == {None, "note"}

\* Values of datetime.now() an update may see.
Times == {1, 2}

\* Quantities a call of OrderHandler.remove_item may carry.
RemoveQuantities == {-1, 0, 1, 2, 3}

\* The arguments of OrderHandler.remove_item after order_id; quantity=None is
\* has_quantity FALSE.
RemoveData ==
    [menu_item_id : MenuIdInputs, has_quantity : {TRUE}, quantity : RemoveQuantities]
    \cup [menu_item_id : MenuIdInputs, has_quantity : {FALSE}, quantity : {0}]

\* The query string of get_orders: every filter, two pages, pages of one row
\* and of the default size.
ListArgs ==
    [user_id : {0} \cup AllUserIds,
     status : {Absent, "pending", "confirmed", "invalid_status"},
     is_paid : {Absent, "true", "True", "false"},
     page : {1, 2},
     per_page : {1, ITEMS_PER_PAGE}]

\* The query strings without page and per_page.
FirstPageArgs == {args \in ListArgs : args.page = 1 /\ args.per_page = ITEMS_PER_PAGE}

\* payment_method an update_payment_status request may carry, or none.
MethodValues == {Absent, None, "cash"}

\* ----------------------------------------------------------------- actions

\* The server threads that serve requests at the same time.
Threads == {1, 2}

\* A thread between two requests.
Idle == [kind |-> "idle"]

\* The <<item, price>> pairs at which the catalog offers an item as available.
Available(m) == {<<i, m[i].price>> : i \in {j \in DOMAIN m : m[j].is_available}}

\* History kept for the properties, which no handler reads: every request in
\* flight records the offers of the catalog it runs beside.
Observe(reqs, m) ==
    [t \in DOMAIN reqs |->
        IF reqs[t].kind \in {"create_order", "add_order_item"}
        THEN [reqs[t] EXCEPT !.seen = @ \cup Available(m)]
        ELSE reqs[t]]

\* -------------------------------------------------------- requests in flight

\* create_order up to its loop: the body is not empty, the order is added to
\* the session and flushed.  The session holds the entries, the position of
\* the loop, the menu items it has loaded and the lines it has added.
create_order_begin(db, u, entries) ==
    [kind |-> "create_order", user_id |-> u, items |-> entries, next |-> 1,
     loaded |-> EmptyTable, order_items |-> << >>, seen |-> Available(db.menu)]

\* An entry of the loop that adds its quantity to the line the session
\* already holds for the same menu item.
create_order_entry_merging(db, request) ==
    LET item_data == request.items[request.next]
        id == item_data.menu_item_id
        known == id \in DOMAIN request.loaded
        same == {i \in 1..Len(request.order_items) :
                    request.order_items[i].menu_item_id = id}
    IN  IF ~item_data.has_fields \/ (~known /\ id \notin DOMAIN db.menu)
        THEN Idle
        ELSE LET menu_item == IF known THEN request.loaded[id] ELSE db.menu[id] IN
             IF ~menu_item.is_available \/ quantity_rejected(item_data.quantity)
             THEN Idle
             ELSE IF same # {}
             THEN [request EXCEPT
                      !.next = @ + 1,
                      !.order_items[CHOOSE i \in same : TRUE].quantity =
                          @ + item_data.quantity]
             ELSE [request EXCEPT
                      !.next = @ + 1,
                      !.loaded = (id :> menu_item) @@ @,
                      !.order_items = Append(@, [menu_item_id |-> id,
                                                 quantity |-> item_data.quantity,
                                                 unit_price |-> menu_item.price])]

\* One entry of the loop of create_order.  db.session.get(MenuItem, id)
\* returns the object the session has loaded for the id, and reads the row
\* only when it has none; a failing check rolls the session back and ends the
\* request.
create_order_entry(db, request) ==
    LET item_data == request.items[request.next]
        id == item_data.menu_item_id
        known == id \in DOMAIN request.loaded
    IN  IF ~item_data.has_fields \/ (~known /\ id \notin DOMAIN db.menu)
        THEN Idle
        ELSE LET menu_item == IF known THEN request.loaded[id] ELSE db.menu[id] IN
             IF ~menu_item.is_available \/ quantity_rejected(item_data.quantity)
             THEN Idle
             ELSE [request EXCEPT
                      !.next = @ + 1,
                      !.loaded = (id :> menu_item) @@ @,
                      !.order_items = Append(@, [menu_item_id |-> id,
                                                 quantity |-> item_data.quantity,
                                                 unit_price |-> menu_item.price])]

\* The lines of the session, inserted in the order they were added.
RECURSIVE insert_order_items(_, _, _)
insert_order_items(table, order_id, added) ==
    IF added = << >>
    THEN table
    ELSE insert_order_items(
             Insert(table, [order_id |-> order_id,
                            menu_item_id |-> Head(added).menu_item_id,
                            quantity |-> Head(added).quantity,
                            unit_price |-> Head(added).unit_price]),
             order_id,
             Tail(added))

\* db.session.commit() of create_order: the order and its lines are persisted.
create_order_commit(db, request) ==
    Result(Created, "",
           commit(db, [db EXCEPT
                          !.orders = Insert(@, new_order(request.user_id)),
                          !.lines = insert_order_items(@, NewId(db.orders),
                                                       request.order_items)]))

\* add_order_item up to its commit, when no check fails: the session holds the
\* menu item as it was read, the row the lookup returned and its quantity as
\* it was read.
add_order_item_begin(db, order_id, data, existing_item) ==
    [kind |-> "add_order_item", order_id |-> order_id,
     menu_item_id |-> data.menu_item_id,
     menu_item |-> db.menu[data.menu_item_id],
     quantity |-> data.quantity,
     existing_item |-> existing_item,
     existing_quantity |-> IF existing_item = NoRow
                           THEN 0 ELSE db.lines[existing_item].quantity,
     seen |-> Available(db.menu)]

\* A unit price read from the catalog again when the session commits.
unit_price_at_commit(db, request) == db.menu[request.menu_item_id].price

\* unit_price=menu_item.price, of the menu item the session holds.
unit_price(db, request) == request.menu_item.price

\* db.session.commit() of add_order_item.  The increment was computed from
\* the quantity the session read, and the UPDATE writes that sum; an UPDATE
\* that matches no row raises, and the handler rolls back and answers 500.
\* Neither branch reads the order again.
add_order_item_commit(db, request) ==
    IF request.existing_item # NoRow
    THEN IF request.existing_item \notin DOMAIN db.lines
         THEN Result(InternalError, "stale_data", rollback(db, db))
         ELSE Result(Ok, "",
                     commit(db, [db EXCEPT !.lines[request.existing_item].quantity =
                                    request.existing_quantity + request.quantity]))
    ELSE Result(Ok, "",
                commit(db, [db EXCEPT !.lines =
                               Insert(@, [order_id |-> request.order_id,
                                          menu_item_id |-> request.menu_item_id,
                                          quantity |-> request.quantity,
                                          unit_price |-> unit_price(db, request)])]))

\* remove_order_item up to its commit, when no check fails.
remove_order_item_begin(db, order_id, item_id) ==
    [kind |-> "remove_order_item", order_id |-> order_id, item_id |-> item_id]

\* db.session.commit() of remove_order_item: the DELETE of the row, which
\* deletes nothing when the row is gone.  It does not read the order again.
remove_order_item_commit(db, request) ==
    Result(Ok, "", commit(db, [db EXCEPT !.lines = Delete(@, {request.item_id})]))

\* The body of the add_order_item followed in two steps: an item the catalog
\* may hold, in a quantity of one or two.
InFlightItemData ==
    [has_fields : {TRUE}, menu_item_id : 1..MaxMenu, quantity : {1, 2}]

\* data['items'] of the create_order followed in steps: one entry, two
\* entries that name the same item in two quantities, and an entry of
\* quantity 0.
InFlightItemLists ==
    UNION {{<<[has_fields |-> TRUE, menu_item_id |-> m, quantity |-> 1]>>,
            <<[has_fields |-> TRUE, menu_item_id |-> m, quantity |-> 1],
              [has_fields |-> TRUE, menu_item_id |-> m, quantity |-> 2]>>,
            <<[has_fields |-> TRUE, menu_item_id |-> m, quantity |-> 0]>>}
           : m \in 1..MaxMenu}

\* The body of update_menu_item beside requests in flight: a new price, or a
\* new price and the availability at once.
InFlightUpdateData ==
    [has_price : {TRUE}, price : {1, 2}, has_is_available : {FALSE}, is_available : {FALSE}]
    \cup [has_price : {TRUE}, price : {1, 2}, has_is_available : {TRUE}, is_available : BOOLEAN]

\* The tables stay within the bounds; requests served together may leave one
\* line more than the bound.
FitsInFlight(db) ==
    /\ DOMAIN db.orders \subseteq OrderIds
    /\ Cardinality(DOMAIN db.lines) <= MaxLines + 1
    /\ DOMAIN db.lines \subseteq 1..(MaxLines + 2)
    /\ \A l \in DOMAIN db.lines : db.lines[l].quantity <= MaxLineQty

\* The catalog stays within the bounds, and so do the lines when the request
\* writes them.
Fits(db) ==
    /\ Cardinality(DOMAIN db.menu) <= MaxMenu
    /\ DOMAIN db.menu \subseteq MenuIdInputs
    /\ IF db.lines = lines
       THEN TRUE
       ELSE /\ Cardinality(DOMAIN db.lines) <= MaxLines
            /\ DOMAIN db.lines \subseteq LineIdInputs
            /\ \A l \in DOMAIN db.lines : db.lines[l].quantity <= MaxLineQty

CreateMenuItem(Data) ==
    \E u \in UserIds, data \in Data :
        LET r == create_menu_item(Current, u, data)
        IN  /\ Fits(r.db)
            /\ menu' = r.db.menu
            /\ UNCHANGED <<orders, lines>>
            /\ requests' = Observe(requests, r.db.menu)

UpdateMenuItem(Data) ==
    \E u \in UserIds, m \in MenuIdInputs, data \in Data :
        LET r == update_menu_item(Current, u, m, data)
        IN  /\ Fits(r.db)
            /\ menu' = r.db.menu
            /\ orders' = r.db.orders
            /\ lines' = r.db.lines
            /\ requests' = Observe(requests, r.db.menu)

ToggleAvailability ==
    \E u \in UserIds, m \in MenuIdInputs, data \in AvailabilityData :
        LET r == toggle_availability(Current, u, m, data)
        IN  /\ Fits(r.db)
            /\ menu' = r.db.menu
            /\ UNCHANGED <<orders, lines>>
            /\ requests' = Observe(requests, r.db.menu)

DeleteMenuItem ==
    \E u \in UserIds, m \in MenuIdInputs :
        LET r == delete_menu_item(Current, u, m)
        IN  /\ Fits(r.db)
            /\ menu' = r.db.menu
            /\ orders' = r.db.orders
            /\ lines' = r.db.lines
            /\ requests' = Observe(requests, r.db.menu)

\* The orders table holds ids among Ids.
CreateOrder(Callers, Ids) ==
    \E u \in Callers, entries \in ItemLists :
        LET r == create_order(Current, u, entries)
        IN  /\ Fits(r.db)
            /\ DOMAIN r.db.orders \subseteq Ids
            /\ menu' = r.db.menu
            /\ orders' = r.db.orders
            /\ lines' = r.db.lines
            /\ UNCHANGED requests

AddOrderItem ==
    \E u \in UserIds, o \in OrderIdInputs, data \in ItemData :
        \E first \in existing_item_first(Current, o, data.menu_item_id) :
            LET r == add_order_item(Current, u, o, data, first)
            IN  /\ Fits(r.db)
                /\ menu' = r.db.menu
                /\ orders' = r.db.orders
                /\ lines' = r.db.lines
                /\ UNCHANGED requests

RemoveOrderItem ==
    \E u \in UserIds, o \in OrderIdInputs, l \in LineIdInputs :
        LET r == remove_order_item(Current, u, o, l)
        IN  /\ Fits(r.db)
            /\ menu' = r.db.menu
            /\ orders' = r.db.orders
            /\ lines' = r.db.lines
            /\ UNCHANGED requests

UpdateOrderStatus(statuses, notes, times) ==
    \E u \in UserIds, o \in OrderIdInputs, data \in StatusData(statuses, notes),
       now \in times :
        LET r == update_order_status(Current, u, o, data, now)
        IN  /\ Fits(r.db)
            /\ menu' = r.db.menu
            /\ orders' = r.db.orders
            /\ lines' = r.db.lines
            /\ UNCHANGED requests

UpdatePaymentStatus(methods) ==
    \E u \in UserIds, o \in OrderIdInputs, data \in PaymentData(methods) :
        LET r == update_payment_status(Current, u, o, data)
        IN  /\ Fits(r.db)
            /\ menu' = r.db.menu
            /\ orders' = r.db.orders
            /\ lines' = r.db.lines
            /\ UNCHANGED requests

DeleteOrder ==
    \E u \in UserIds, o \in OrderIdInputs :
        LET r == delete_order(Current, u, o)
        IN  /\ Fits(r.db)
            /\ menu' = r.db.menu
            /\ orders' = r.db.orders
            /\ lines' = r.db.lines
            /\ UNCHANGED requests

\* A read leaves the tables as they are.
GetOrder(Callers) ==
    \E u \in Callers, o \in OrderIdInputs :
        /\ get_order(Current, u, o).code \in {Ok, Forbidden, NotFound}
        /\ UNCHANGED vars

GetOrders(Callers, Args) ==
    \E u \in Callers, args \in Args :
        /\ get_orders(Current, u, args).code \in {Ok, BadRequest}
        /\ UNCHANGED vars

\* OrderHandler.remove_item, called on the tables.
RemoveItem ==
    \E o \in OrderIdInputs, data \in RemoveData :
        \E first \in existing_item_first(Current, o, data.menu_item_id) :
            LET r == remove_item(Current, o, data, first)
            IN  /\ Fits(r.db)
                /\ menu' = r.db.menu
                /\ orders' = r.db.orders
                /\ lines' = r.db.lines
                /\ UNCHANGED requests

\* create_order by the plain user, up to its loop.
BeginCreateOrder(Serving) ==
    \E t \in Serving, entries \in InFlightItemLists :
        /\ requests[t] = Idle
        /\ requests' = [requests EXCEPT ![t] = create_order_begin(Current, 1, entries)]
        /\ UNCHANGED <<menu, orders, lines>>

\* The next entry of the loop of a create_order.
CreateOrderEntry ==
    \E t \in Threads :
        /\ requests[t].kind = "create_order"
        /\ requests[t].next <= Len(requests[t].items)
        /\ requests' = [requests EXCEPT ![t] = create_order_entry(Current, @)]
        /\ UNCHANGED <<menu, orders, lines>>

\* The commit of a create_order after its last entry.
CommitCreateOrder ==
    \E t \in Threads :
        /\ requests[t].kind = "create_order"
        /\ requests[t].next > Len(requests[t].items)
        /\ LET r == create_order_commit(Current, requests[t])
           IN  /\ FitsInFlight(r.db)
               /\ menu' = r.db.menu
               /\ orders' = r.db.orders
               /\ lines' = r.db.lines
        /\ requests' = [requests EXCEPT ![t] = Idle]

\* add_order_item by the plain user up to its commit; a request that a check
\* refuses ends here and writes nothing.
BeginAddOrderItem(Serving) ==
    \E t \in Serving, o \in OrderIds, data \in InFlightItemData :
        \E first \in existing_item_first(Current, o, data.menu_item_id) :
            /\ requests[t] = Idle
            /\ requests' =
                   IF add_order_item(Current, 1, o, data, first).code = Ok
                   THEN [requests EXCEPT
                            ![t] = add_order_item_begin(Current, o, data, first)]
                   ELSE requests
            /\ UNCHANGED <<menu, orders, lines>>

\* The commit of an add_order_item.
CommitAddOrderItem ==
    \E t \in Threads :
        /\ requests[t].kind = "add_order_item"
        /\ LET r == add_order_item_commit(Current, requests[t])
           IN  /\ FitsInFlight(r.db)
               /\ menu' = r.db.menu
               /\ orders' = r.db.orders
               /\ lines' = r.db.lines
        /\ requests' = [requests EXCEPT ![t] = Idle]

\* remove_order_item by the plain user up to its commit; a request that a
\* check refuses ends here and writes nothing.
BeginRemoveOrderItem(Serving) ==
    \E t \in Serving, o \in OrderIds, l \in 1..(MaxLines + 2) :
        /\ requests[t] = Idle
        /\ requests' =
               IF remove_order_item(Current, 1, o, l).code = Ok
               THEN [requests EXCEPT ![t] = remove_order_item_begin(Current, o, l)]
               ELSE requests
        /\ UNCHANGED <<menu, orders, lines>>

\* The commit of a remove_order_item.
CommitRemoveOrderItem ==
    \E t \in Threads :
        /\ requests[t].kind = "remove_order_item"
        /\ LET r == remove_order_item_commit(Current, requests[t])
           IN  /\ FitsInFlight(r.db)
               /\ menu' = r.db.menu
               /\ orders' = r.db.orders
               /\ lines' = r.db.lines
        /\ requests' = [requests EXCEPT ![t] = Idle]

\* ------------------------------------------------------------ specification

Init ==
    /\ menu = EmptyTable
    /\ orders = EmptyTable
    /\ lines = EmptyTable
    /\ requests = [t \in Threads |-> Idle]

\* The catalog and the lines in full; the order is the plain user's, it moves
\* between pending and confirmed and is marked paid or unpaid.
Next ==
    \/ CreateMenuItem(CreateMenuData)
    \/ UpdateMenuItem(UpdateMenuData)
    \/ ToggleAvailability
    \/ DeleteMenuItem
    \/ CreateOrder({1}, OrderIds)
    \/ AddOrderItem
    \/ RemoveOrderItem
    \/ UpdateOrderStatus({"pending", "confirmed", "invalid_status"}, {}, {1})
    \/ UpdatePaymentStatus({Absent})
    \/ DeleteOrder

Spec == Init /\ [][Next]_vars

\* The status in full; the catalog holds items of one price, always available.
NextStatus ==
    \/ CreateMenuItem({PlainItem})
    \/ CreateOrder(UserIds, OrderIds)
    \/ AddOrderItem
    \/ RemoveOrderItem
    \/ UpdateOrderStatus(StatusValues, NoteValues, Times)
    \/ DeleteOrder

SpecStatus == Init /\ [][NextStatus]_vars

\* The status and the payment in full, of one order of the plain user or of
\* the staff member, with lines as create_order leaves them.
NextPayment ==
    \/ CreateMenuItem({PlainItem})
    \/ CreateOrder({1, 2}, OrderIds)
    \/ UpdateOrderStatus(StatusValues, {}, {1})
    \/ UpdatePaymentStatus(MethodValues)
    \/ DeleteOrder

SpecPayment == Init /\ [][NextPayment]_vars

\* Two orders of two plain users, confirmed and paid by the staff, and read.
NextAccess ==
    \/ CreateMenuItem({PlainItem})
    \/ CreateOrder({1, 4}, AccessOrderIds)
    \/ RemoveOrderItem
    \/ UpdateOrderStatus({"pending", "confirmed"}, {}, {1})
    \/ UpdatePaymentStatus({Absent})
    \/ DeleteOrder
    \/ GetOrder(AllUserIds)
    \/ GetOrders(AllUserIds, FirstPageArgs)

SpecAccess == Init /\ [][NextAccess]_vars

\* The lines of one order, in any status, removed through the route and
\* through OrderHandler; the catalog holds items of one price.
NextHandler ==
    \/ CreateMenuItem({PlainItem})
    \/ CreateOrder(UserIds, OrderIds)
    \/ AddOrderItem
    \/ RemoveOrderItem
    \/ RemoveItem
    \/ UpdateOrderStatus(valid_statuses, {}, {1})

SpecHandler == Init /\ [][NextHandler]_vars

\* The catalog in full, through its three writers.
NextCatalog ==
    \/ CreateMenuItem(CatalogCreateData)
    \/ UpdateMenuItem(CatalogUpdateData)
    \/ DeleteMenuItem

SpecCatalog == Init /\ [][NextCatalog]_vars

\* Every order operation, on orders of the plain user and of the staff member
\* and a catalog of stocked items that are switched between available and
\* unavailable.
NextStock ==
    \/ CreateMenuItem({StockedItem})
    \/ ToggleAvailability
    \/ CreateOrder({1, 2}, OrderIds)
    \/ AddOrderItem
    \/ RemoveOrderItem
    \/ UpdateOrderStatus({"pending", "confirmed"}, {}, {1})
    \/ UpdatePaymentStatus({Absent, "cash"})
    \/ DeleteOrder

SpecStock == Init /\ [][NextStock]_vars

\* add_order_item and remove_order_item on one order of the plain user, served
\* by two threads at the same time, each between its reads and its commit,
\* beside the staff's changes of the order's status; the catalog holds items
\* of one price.
NextRace ==
    \/ CreateMenuItem({PlainItem})
    \/ CreateOrder({1}, OrderIds)
    \/ BeginAddOrderItem(Threads)
    \/ CommitAddOrderItem
    \/ BeginRemoveOrderItem(Threads)
    \/ CommitRemoveOrderItem
    \/ UpdateOrderStatus({"pending", "confirmed"}, {}, {1})

SpecRace == Init /\ [][NextRace]_vars

\* create_order, add_order_item and remove_order_item of the plain user, one
\* at a time, between their reads and their commit, beside the staff's changes
\* of the catalog.
NextInFlight ==
    \/ CreateMenuItem({PlainItem})
    \/ UpdateMenuItem(InFlightUpdateData)
    \/ ToggleAvailability
    \/ BeginCreateOrder({1})
    \/ CreateOrderEntry
    \/ CommitCreateOrder
    \/ BeginAddOrderItem({1})
    \/ CommitAddOrderItem
    \/ BeginRemoveOrderItem({1})
    \/ CommitRemoveOrderItem

SpecInFlight == Init /\ [][NextInFlight]_vars

\* ------------------------------------------------------- prices and totals

LinesOf(o) == {l \in DOMAIN lines : lines[l].order_id = o}

RECURSIVE SumOfSnapshots(_)
SumOfSnapshots(ids) ==
    IF ids = {} THEN 0
    ELSE LET l == CHOOSE x \in ids : TRUE
         IN  lines[l].quantity * lines[l].unit_price + SumOfSnapshots(ids \ {l})

\* C1: in every reachable state the total of every order, as calculate_total
\* and as total_price of to_dict, is the sum over its lines of quantity times
\* the line's own unit_price, and no update_menu_item request changes it.
C1_TotalIsSumOfSnapshots ==
    \A o \in DOMAIN orders :
        /\ calculate_total(Current, o) = SumOfSnapshots(LinesOf(o))
        /\ total_price(Current, o) = SumOfSnapshots(LinesOf(o))
        /\ \A u \in UserIds, m \in MenuIdInputs, data \in UpdateMenuData :
              LET r == update_menu_item(Current, u, m, data)
              IN  /\ o \in DOMAIN r.db.orders
                  /\ total_price(r.db, o) = total_price(Current, o)

\* An order with a line whose item has changed its catalog price since.
C1_Witness ==
    \E o \in DOMAIN orders : \E l \in LinesOf(o) :
        /\ lines[l].unit_price # menu[lines[l].menu_item_id].price
        /\ calculate_total(Current, o) > 0

\* C2: a step never changes the unit_price of a line it keeps, and the
\* unit_price of a line it creates is the catalog price of the line's menu item
\* at that step.
C2_UnitPriceImmutable ==
    [][ /\ \A l \in DOMAIN lines \cap DOMAIN lines' :
              lines'[l].unit_price = lines[l].unit_price
        /\ \A l \in DOMAIN lines' \ DOMAIN lines :
              lines'[l].unit_price = menu[lines'[l].menu_item_id].price ]_vars

\* A line of a confirmed, paid order whose item has since changed its price and
\* become unavailable.
C2_Witness ==
    \E l \in DOMAIN lines :
        /\ lines[l].unit_price # menu[lines[l].menu_item_id].price
        /\ ~menu[lines[l].menu_item_id].is_available
        /\ orders[lines[l].order_id].status = "confirmed"
        /\ orders[lines[l].order_id].is_paid

\* The add_order_item request is the owner's, on a pending order that has a
\* line for the item, and passes the checks of the body.
AddsToExisting(u, o, data) ==
    /\ orders[o].user_id = u
    /\ orders[o].status = "pending"
    /\ data.has_fields
    /\ data.menu_item_id \in DOMAIN menu
    /\ menu[data.menu_item_id].is_available
    /\ data.quantity > 0
    /\ \E l \in LinesOf(o) : lines[l].menu_item_id = data.menu_item_id

\* C3: add_order_item on a pending order that has a line for the item adds the
\* quantity to one such line, creates no line and changes nothing else: the
\* line keeps its unit_price whatever the catalog price is now.
C3_AddToExistingLine ==
    \A u \in UserIds, o \in DOMAIN orders, data \in ItemData :
        AddsToExisting(u, o, data) =>
            \A first \in existing_item_first(Current, o, data.menu_item_id) :
                LET r == add_order_item(Current, u, o, data, first)
                IN  /\ r.code = Ok
                    /\ first \in LinesOf(o)
                    /\ lines[first].menu_item_id = data.menu_item_id
                    /\ DOMAIN r.db.lines = DOMAIN lines
                    /\ r.db.lines[first].quantity = lines[first].quantity + data.quantity
                    /\ r.db.lines[first].unit_price = lines[first].unit_price
                    /\ \A l \in DOMAIN lines \ {first} : r.db.lines[l] = lines[l]

\* Such a request on a line whose item has changed its price since, served
\* within the bounds.
C3_Witness ==
    \E u \in UserIds, o \in DOMAIN orders, data \in ItemData :
        /\ AddsToExisting(u, o, data)
        /\ \E first \in existing_item_first(Current, o, data.menu_item_id) :
              /\ lines[first].unit_price # menu[data.menu_item_id].price
              /\ Fits(add_order_item(Current, u, o, data, first).db)

\* --------------------------------------------------------- order creation

\* The entry fails one of the checks of create_order.
EntryFails(e) ==
    \/ ~e.has_fields
    \/ e.menu_item_id \notin DOMAIN menu
    \/ ~menu[e.menu_item_id].is_available
    \/ e.quantity <= 0

\* C4: create_order with an entry that fails, at any position, answers an
\* error and leaves the orders and the lines exactly as they were.
C4_CreateOrderAllOrNothing ==
    \A u \in UserIds, entries \in ItemLists :
        (\E i \in 1..Len(entries) : EntryFails(entries[i])) =>
            LET r == create_order(Current, u, entries)
            IN  /\ r.code \notin {Ok, Created}
                /\ r.db.orders = orders
                /\ r.db.lines = lines

\* An order is persisted and a request has a valid entry before a failing one.
C4_Witness ==
    /\ DOMAIN orders # {}
    /\ DOMAIN lines # {}
    /\ \E entries \in ItemLists :
          /\ Len(entries) = 2
          /\ ~EntryFails(entries[1])
          /\ EntryFails(entries[2])

\* The first entry that fails is one whose item exists and is unavailable.
UnavailableFirst(entries) ==
    \E i \in 1..Len(entries) :
        /\ \A j \in 1..(i - 1) : ~EntryFails(entries[j])
        /\ entries[i].has_fields
        /\ entries[i].menu_item_id \in DOMAIN menu
        /\ ~menu[entries[i].menu_item_id].is_available

\* The status code of a validation error: what create_order answers to an
\* empty list of items.
ValidationErrorCode == create_order(Current, 1, << >>).code

SixStatuses == {"pending", "confirmed", "preparing", "ready", "completed", "cancelled"}

Terminal == {"completed", "cancelled"}

Failed(r) == r.code \notin {Ok, Created} /\ r.db = Current

\* C6: on an order whose status is not pending, every add_order_item and
\* every remove_order_item request of the owner answers an error and leaves
\* the tables, so the order's lines and their quantities, as they were.
C6_NonPendingOrderKeepsLines ==
    \A o \in DOMAIN orders :
        orders[o].status # "pending" =>
            /\ \A data \in ItemData :
                  \A first \in existing_item_first(Current, o, data.menu_item_id) :
                      Failed(add_order_item(Current, orders[o].user_id, o, data, first))
            /\ \A l \in LineIdInputs :
                  Failed(remove_order_item(Current, orders[o].user_id, o, l))

\* A cancelled order with a line, while its item can be ordered.
C6_Witness ==
    \E o \in DOMAIN orders : \E l \in LinesOf(o) :
        /\ orders[o].status = "cancelled"
        /\ menu[lines[l].menu_item_id].is_available

C9_CompletedAtSetOnlyByCompleted ==
    \A o \in DOMAIN orders, u \in UserIds, now \in Times :
        \A data \in StatusData(SixStatuses, NoteValues) :
            (role(u) \in {"staff", "admin"} /\ data.has_status) =>
                LET r == update_order_status(Current, u, o, data, now)
                IN  /\ r.code = Ok
                    /\ data.status = "completed" =>
                          /\ r.db.orders[o].completed_at = now
                          /\ r.db.orders[o].completed_at # NoTime
                    /\ data.status # "completed" =>
                          r.db.orders[o].completed_at = orders[o].completed_at

\* An order completed at the later time and cancelled afterwards.
C9_Witness ==
    \E o \in DOMAIN orders :
        /\ orders[o].status = "cancelled"
        /\ orders[o].completed_at = 2

\* C10: the status of every order is one of the six, and update_order_status
\* with any other status answers 400 and changes nothing: status, completed_at
\* and admin_notes stay.
C10_StatusIsValid ==
    \A o \in DOMAIN orders :
        /\ orders[o].status \in SixStatuses
        /\ \A u \in UserIds, now \in Times :
              \A data \in StatusData(StatusValues \ SixStatuses, NoteValues) :
                  (role(u) \in {"staff", "admin"} /\ data.has_status) =>
                      LET r == update_order_status(Current, u, o, data, now)
                      IN  /\ r.code = BadRequest
                          /\ r.db.orders[o].status = orders[o].status
                          /\ r.db.orders[o].completed_at = orders[o].completed_at
                          /\ r.db.orders[o].admin_notes = orders[o].admin_notes
                          /\ r.db = Current

\* An order in preparation that carries a note of the staff.
C10_Witness ==
    \E o \in DOMAIN orders :
        /\ orders[o].status = "preparing"
        /\ orders[o].admin_notes = "note"

\* C11 as stated: no step moves the status of an order to an earlier stage of
\* the lifecycle than the one it is in.
C11_StatusNeverGoesBack ==
    [][ \A o \in DOMAIN orders \cap DOMAIN orders' :
            Stage(orders'[o].status) >= Stage(orders[o].status) ]_vars

\* C11: update_order_status keeps no order among the stages: by staff or
\* admin, with any of the six statuses that is an earlier stage than the
\* order's, it succeeds, sets the status to the one requested and leaves
\* completed_at, the payment, the owner and the lines as they were.
C11_StatusCanGoBack ==
    \A o \in DOMAIN orders, u \in UserIds, now \in Times :
        \A data \in StatusData(SixStatuses, NoteValues) :
            ( /\ role(u) \in {"staff", "admin"}
              /\ data.has_status
              /\ Stage(data.status) < Stage(orders[o].status) ) =>
                LET r == update_order_status(Current, u, o, data, now)
                IN  /\ r.code = Ok
                    /\ r.db.orders[o].status = data.status
                    /\ Stage(r.db.orders[o].status) < Stage(orders[o].status)
                    /\ r.db.orders[o].completed_at = orders[o].completed_at
                    /\ r.db.orders[o].user_id = orders[o].user_id
                    /\ r.db.lines = lines

\* An order that was completed at the later time and is confirmed now.
C11_Witness ==
    \E o \in DOMAIN orders :
        /\ orders[o].status = "confirmed"
        /\ orders[o].completed_at = 2
        /\ orders[o].admin_notes = "note"

\* ----------------------------------------------------------------- payment

\* C12: on an order in any status, update_payment_status by staff or admin
\* with is_paid succeeds and writes is_paid and, when the body carries it,
\* payment_method; the status, completed_at, admin_notes and user_id of the
\* order, the other orders, the lines and the catalog stay as they were.
C12_PaymentOnlyWritesPayment ==
    \A o \in DOMAIN orders, u \in UserIds, data \in PaymentData(MethodValues) :
        (role(u) \in {"staff", "admin"} /\ data.has_is_paid) =>
            LET r == update_payment_status(Current, u, o, data)
            IN  /\ r.code = Ok
                /\ r.db.orders[o].is_paid = data.is_paid
                /\ r.db.orders[o].payment_method =
                       IF data.payment_method = Absent
                       THEN orders[o].payment_method ELSE data.payment_method
                /\ r.db.orders[o].status = orders[o].status
                /\ r.db.orders[o].completed_at = orders[o].completed_at
                /\ r.db.orders[o].admin_notes = orders[o].admin_notes
                /\ r.db.orders[o].user_id = orders[o].user_id
                /\ DOMAIN r.db.orders = DOMAIN orders
                /\ \A other \in DOMAIN orders \ {o} : r.db.orders[other] = orders[other]
                /\ r.db.lines = lines
                /\ r.db.menu = menu

\* A cancelled order that was completed before, paid in cash, with its line.
C12_Witness ==
    \E o \in DOMAIN orders :
        /\ orders[o].status = "cancelled"
        /\ orders[o].completed_at # NoTime
        /\ orders[o].is_paid
        /\ orders[o].payment_method = "cash"
        /\ LinesOf(o) # {}

\* ---------------------------------------------------------------- deletion

\* C13: delete_order removes the order when the caller is an admin, or owns
\* the order and the order is pending; for every other caller of an existing
\* order it answers an error and leaves the orders and the lines as they were.
C13_DeleteOrderByAdminOrPendingOwner ==
    \A o \in DOMAIN orders, u \in UserIds :
        LET r == delete_order(Current, u, o)
        IN  IF \/ role(u) = "admin"
               \/ (orders[o].user_id = u /\ orders[o].status = "pending")
            THEN /\ r.code = Ok
                 /\ o \notin DOMAIN r.db.orders
            ELSE /\ r.code \in {Forbidden, BadRequest}
                 /\ r.db.orders = orders
                 /\ r.db.lines = lines

\* An order of the staff member, with a line, that is no longer pending: its
\* owner, a member of staff, may not delete it.
C13_Witness ==
    \E o \in DOMAIN orders :
        /\ orders[o].user_id = 2
        /\ role(orders[o].user_id) = "staff"
        /\ orders[o].status = "ready"
        /\ LinesOf(o) # {}

\* C14: the order_id of every line is the id of an order, and a delete_order
\* that succeeds leaves no line of the order.
C14_NoOrphanLines ==
    /\ \A l \in DOMAIN lines : lines[l].order_id \in DOMAIN orders
    /\ \A o \in DOMAIN orders, u \in UserIds :
          LET r == delete_order(Current, u, o)
          IN  r.code = Ok =>
                  /\ items(r.db, o) = {}
                  /\ \A l \in DOMAIN r.db.lines : r.db.lines[l].order_id \in DOMAIN r.db.orders
                  /\ \A l \in DOMAIN lines \ LinesOf(o) :
                        l \in DOMAIN r.db.lines /\ r.db.lines[l] = lines[l]

\* A completed order of the plain user that holds a line of two units.
C14_Witness ==
    \E o \in DOMAIN orders : \E l \in LinesOf(o) :
        /\ orders[o].status = "completed"
        /\ orders[o].user_id = 1
        /\ lines[l].quantity = 2
        /\ delete_order(Current, 3, o).code = Ok

\* ------------------------------------------------------------ line removal

\* OrderHandler.remove_item follows the rule of the quantity: on a line of the
\* order for the item, a call without quantity or with one not smaller than
\* the line's deletes the line, a call with a smaller one subtracts it from
\* the line's quantity and keeps the line; the order and everything else stay.
HandlerFollowsQuantity ==
    \A o \in DOMAIN orders, data \in RemoveData :
        \A first \in existing_item_first(Current, o, data.menu_item_id) :
            first # NoRow =>
                LET r == remove_item(Current, o, data, first)
                    q == lines[first].quantity
                IN  /\ r.exception = None
                    /\ r.db.orders = orders
                    /\ r.db.menu = menu
                    /\ \A l \in DOMAIN lines \ {first} :
                          l \in DOMAIN r.db.lines /\ r.db.lines[l] = lines[l]
                    /\ IF ~data.has_quantity \/ data.quantity >= q
                       THEN first \notin DOMAIN r.db.lines
                       ELSE /\ first \in DOMAIN r.db.lines
                            /\ r.db.lines[first] =
                                  [lines[first] EXCEPT !.quantity = q - data.quantity]

Range(seq) == {seq[i] : i \in 1..Len(seq)}

\* The tables without the orders of the users other than u, and their lines.
OwnOrdersOnly(u) ==
    LET own == {o \in DOMAIN orders : orders[o].user_id = u}
    IN  Database(menu,
                 [o \in own |-> orders[o]],
                 [l \in {x \in DOMAIN lines : lines[x].order_id \in own} |-> lines[l]])

\* C16: get_order of an existing order answers the order to its owner and to
\* staff and admin; to a caller with role user who is not the owner it
\* answers Forbidden and no order.
C16_GetOrderOwnerOrStaff ==
    \A o \in DOMAIN orders, u \in AllUserIds :
        LET r == get_order(Current, u, o)
        IN  IF orders[o].user_id = u \/ role(u) \in {"staff", "admin"}
            THEN r.code = Ok /\ r.orders = <<o>>
            ELSE r.code = Forbidden /\ r.orders = << >>

\* An order of each of the two plain users.
C16_Witness ==
    \E o1, o2 \in DOMAIN orders :
        /\ orders[o1].user_id = 1
        /\ orders[o2].user_id = 4
        /\ role(1) = "user" /\ role(4) = "user"
        /\ get_order(Current, 1, o2).code = Forbidden

\* C17: get_orders by a caller with role user answers only orders of the
\* caller, whatever the query string, and the same as if the orders of the
\* other users did not exist; by staff or admin without a user_id filter it
\* answers the orders of every user that pass the status and is_paid filters,
\* all the orders when there is no filter.
C17_GetOrdersScopedToCaller ==
    \A u \in AllUserIds, args \in ListArgs :
        LET r == get_orders(Current, u, args)
        IN  IF role(u) = "user"
            THEN /\ \A o \in Range(r.orders) :
                       o \in DOMAIN orders /\ orders[o].user_id = u
                 /\ r = get_orders(OwnOrdersOnly(u), u, args)
                 /\ r = get_orders(Current, u, [args EXCEPT !.user_id = 0])
            ELSE (args.user_id = 0 /\ args \in FirstPageArgs /\ r.code = Ok) =>
                     /\ Range(r.orders) =
                            filter_by_status_and_payment(Current, DOMAIN orders, args)
                     /\ (args.status = Absent /\ args.is_paid = Absent) =>
                            Range(r.orders) = DOMAIN orders

\* An unpaid order of one plain user and a paid, confirmed order of the other.
C17_Witness ==
    \E o1, o2 \in DOMAIN orders :
        /\ orders[o1].user_id = 1 /\ ~orders[o1].is_paid
        /\ orders[o2].user_id = 4 /\ orders[o2].is_paid
        /\ orders[o2].status = "confirmed"
        /\ Len(get_orders(Current, 2, CHOOSE args \in FirstPageArgs :
                    args.user_id = 0 /\ args.status = Absent /\ args.is_paid = Absent).orders) = 2

\* ------------------------------------------------------------------- roles

Unchanged(r) == r.db = Current

\* C18: create_menu_item and delete_menu_item answer Forbidden and change
\* nothing unless the caller is an admin; update_menu_item and
\* toggle_availability answer Forbidden and change nothing unless the caller
\* is staff or admin; a caller with the role is not answered Forbidden, and
\* every request that changes the catalog is one of a caller with the role.
C18_CatalogRoleGated ==
    \A u \in AllUserIds :
        /\ \A data \in CreateMenuData :
              LET r == create_menu_item(Current, u, data)
              IN  /\ role(u) # "admin" => (r.code = Forbidden /\ Unchanged(r))
                  /\ role(u) = "admin" => r.code # Forbidden
                  /\ r.db.menu # menu => role(u) = "admin"
        /\ \A m \in MenuIdInputs :
              LET r == delete_menu_item(Current, u, m)
              IN  /\ role(u) # "admin" => (r.code = Forbidden /\ Unchanged(r))
                  /\ role(u) = "admin" => r.code # Forbidden
                  /\ r.db.menu # menu => role(u) = "admin"
        /\ \A m \in MenuIdInputs, data \in UpdateMenuData :
              LET r == update_menu_item(Current, u, m, data)
              IN  /\ role(u) \notin {"staff", "admin"} =>
                        (r.code = Forbidden /\ Unchanged(r))
                  /\ role(u) \in {"staff", "admin"} => r.code # Forbidden
                  /\ r.db.menu # menu => role(u) \in {"staff", "admin"}
        /\ \A m \in MenuIdInputs, data \in AvailabilityData :
              LET r == toggle_availability(Current, u, m, data)
              IN  /\ role(u) \notin {"staff", "admin"} =>
                        (r.code = Forbidden /\ Unchanged(r))
                  /\ role(u) \in {"staff", "admin"} => r.code # Forbidden
                  /\ r.db.menu # menu => role(u) \in {"staff", "admin"}

\* An item that no line references, repriced and taken off the menu, while an
\* order is persisted: the admin's delete_menu_item would remove it.
C18_Witness ==
    \E m \in DOMAIN menu :
        /\ menu[m].price = 2
        /\ ~menu[m].is_available
        /\ DOMAIN orders # {}
        /\ delete_menu_item(Current, 3, m).code = Ok
        /\ delete_menu_item(Current, 2, m).code = Forbidden

\* C19: update_order_status and update_payment_status of a caller with role
\* user, the owner of the order included, answer Forbidden and change nothing;
\* a caller who is staff or admin is not answered Forbidden, and every request
\* that changes the status, completed_at, is_paid or payment_method of an
\* order is one of staff or admin.
C19_OrderUpdatesStaffOrAdmin ==
    \A o \in DOMAIN orders, u \in AllUserIds :
        /\ \A data \in StatusData(StatusValues, NoteValues), now \in Times :
              LET r == update_order_status(Current, u, o, data, now)
              IN  /\ role(u) = "user" =>
                        /\ r.code = Forbidden
                        /\ Unchanged(r)
                        /\ r.db.orders[o].status = orders[o].status
                        /\ r.db.orders[o].completed_at = orders[o].completed_at
                  /\ role(u) \in {"staff", "admin"} => r.code # Forbidden
                  /\ r.db.orders # orders => role(u) \in {"staff", "admin"}
        /\ \A data \in PaymentData(MethodValues) :
              LET r == update_payment_status(Current, u, o, data)
              IN  /\ role(u) = "user" =>
                        /\ r.code = Forbidden
                        /\ Unchanged(r)
                        /\ r.db.orders[o].is_paid = orders[o].is_paid
                        /\ r.db.orders[o].payment_method = orders[o].payment_method
                  /\ role(u) \in {"staff", "admin"} => r.code # Forbidden
                  /\ r.db.orders # orders => role(u) \in {"staff", "admin"}

\* An order of the plain user that the staff have readied and marked unpaid,
\* with a payment method on record.
C19_Witness ==
    \E o \in DOMAIN orders :
        /\ orders[o].user_id = 1
        /\ role(orders[o].user_id) = "user"
        /\ orders[o].status = "ready"
        /\ ~orders[o].is_paid
        /\ orders[o].payment_method = "cash"

\* C20: add_order_item and remove_order_item of a caller who is not the
\* owner of the order, staff and admin included, answer Forbidden and change
\* nothing; every request that changes the lines is the owner's.
C20_LinesOnlyByOwner ==
    \A o \in DOMAIN orders, u \in AllUserIds :
        /\ \A data \in ItemData :
              \A first \in existing_item_first(Current, o, data.menu_item_id) :
                  LET r == add_order_item(Current, u, o, data, first)
                  IN  /\ u # orders[o].user_id => (r.code = Forbidden /\ Unchanged(r))
                      /\ r.db.lines # lines => u = orders[o].user_id
        /\ \A l \in LineIdInputs :
              LET r == remove_order_item(Current, u, o, l)
              IN  /\ u # orders[o].user_id => (r.code = Forbidden /\ Unchanged(r))
                  /\ r.db.lines # lines => u = orders[o].user_id

\* A pending order of the plain user with a line of one unit of an item on
\* the menu: the owner's add_order_item and remove_order_item succeed.
C20_Witness ==
    \E o \in DOMAIN orders : \E l \in LinesOf(o) :
        /\ orders[o].user_id = 1
        /\ orders[o].status = "pending"
        /\ lines[l].quantity = 1
        /\ remove_order_item(Current, 1, o, l).code = Ok
        /\ add_order_item(Current, 1, o,
                          [has_fields |-> TRUE, menu_item_id |-> lines[l].menu_item_id,
                           quantity |-> 1], l).code = Ok
        /\ add_order_item(Current, 3, o,
                          [has_fields |-> TRUE, menu_item_id |-> lines[l].menu_item_id,
                           quantity |-> 1], l).code = Forbidden

\* ----------------------------------------------------------------- catalog

\* The four categories of the catalog.
FourCategories == {"beverages", "food", "snacks", "desserts"}

\* The body carries a negative price or a category that is none of the four,
\* in any case of letters.
CarriesInvalid(data, priced) ==
    \/ priced /\ data.price < 0
    \/ has(data, "category") /\ lower(data.category) \notin FourCategories

\* C22: in every state reached through create_menu_item and update_menu_item
\* every menu item has a price >= 0 and one of the four categories; a create
\* by the admin, or an update of an existing item by staff or admin, that
\* carries a negative price or an unknown category answers 400 and changes
\* nothing.
C22_PriceAndCategoryValid ==
    /\ \A m \in DOMAIN menu :
           menu[m].price >= 0 /\ menu[m].category \in FourCategories
    /\ \A data \in CatalogCreateData :
           CarriesInvalid(data, has(data, "price")) =>
               LET r == create_menu_item(Current, 3, data)
               IN  r.code = BadRequest /\ r.db = Current
    /\ \A u \in {2, 3}, m \in DOMAIN menu, data \in CatalogUpdateData :
           CarriesInvalid(data, data.has_price) =>
               LET r == update_menu_item(Current, u, m, data)
               IN  r.code = BadRequest /\ r.db = Current

\* An item that an update moved to price 2 and to another category, and that
\* refuses a negative price and an unknown category.
C22_Witness ==
    \E m \in DOMAIN menu :
        /\ menu[m].price = 2
        /\ menu[m].category = "snacks"
        /\ \E data \in CatalogUpdateData :
               data.has_price /\ data.price < 0
               /\ update_menu_item(Current, 3, m, data).code = BadRequest
        /\ \E data \in CatalogUpdateData :
               ~data.has_price /\ CarriesInvalid(data, FALSE)
               /\ update_menu_item(Current, 3, m, data).code = BadRequest

\* Every line refers to a menu item of the catalog.
LinesReferToItems == \A l \in DOMAIN lines : lines[l].menu_item_id \in DOMAIN menu

\* C23: delete_menu_item by the admin on a menu item that an order line
\* references answers Conflict and leaves the item and every line unchanged,
\* and every line refers to an existing menu item.
C23_DeleteReferencedIsConflict ==
    /\ LinesReferToItems
    /\ \A m \in DOMAIN menu :
           order_items(Current, m) # {} =>
               LET r == delete_menu_item(Current, 3, m)
               IN  r.code = conflict_code /\ r.db = Current

\* An item that a line references, which the admin asks to delete.
C23_Witness ==
    \E m \in DOMAIN menu :
        /\ order_items(Current, m) # {}
        /\ delete_menu_item(Current, 3, m).code = InternalError
        /\ delete_menu_item(Current, 3, m).db = Current

\* C24: create_order, add_order_item, remove_order_item, update_order_status,
\* update_payment_status and delete_order leave the catalog as it is, the
\* stock_quantity, is_available and price of every menu item included.
C24_OrderOperationsKeepCatalog ==
    /\ \A u \in UserIds, entries \in ItemLists :
           create_order(Current, u, entries).db.menu = menu
    /\ \A u \in UserIds, o \in OrderIdInputs, data \in ItemData :
           \A first \in existing_item_first(Current, o, data.menu_item_id) :
               add_order_item(Current, u, o, data, first).db.menu = menu
    /\ \A u \in UserIds, o \in OrderIdInputs, l \in LineIdInputs :
           remove_order_item(Current, u, o, l).db.menu = menu
    /\ \A u \in UserIds, o \in OrderIdInputs, now \in Times,
          data \in StatusData(StatusValues, NoteValues) :
           update_order_status(Current, u, o, data, now).db.menu = menu
    /\ \A u \in UserIds, o \in OrderIdInputs, data \in PaymentData(MethodValues) :
           update_payment_status(Current, u, o, data).db.menu = menu
    /\ \A u \in UserIds, o \in OrderIdInputs :
           delete_order(Current, u, o).db.menu = menu

\* A confirmed, paid order with a line of two of a stocked item: create_order,
\* add_order_item, update_order_status and update_payment_status have acted,
\* and the item still has its five in stock.
C24_Witness ==
    \E o \in DOMAIN orders, l \in DOMAIN lines :
        /\ orders[o].status = "confirmed"
        /\ orders[o].is_paid
        /\ lines[l].order_id = o
        /\ lines[l].quantity >= 2
        /\ lines[l].menu_item_id \in DOMAIN menu
        /\ menu[lines[l].menu_item_id].stock_quantity = 5
        /\ menu[lines[l].menu_item_id].price = 1

\* ---------------------------------------------------------------- quantity

C30_RejectedUpdateKeepsItem ==
    \A u \in UserIds, m \in DOMAIN menu, data \in CatalogUpdateData :
        LET r == update_menu_item(Current, u, m, data)
        IN  r.code = BadRequest => r.db = Current

\* An item named otherwise than a request that carries a name, a description
\* and a negative price, and than one that carries a name, a valid price and
\* an invalid category; both are refused.
C30_Witness ==
    \E m \in DOMAIN menu :
        /\ \E data \in CatalogUpdateData :
               /\ has(data, "name") /\ data.name # menu[m].name
               /\ has(data, "description") /\ data.description # menu[m].description
               /\ data.has_price /\ data.price < 0
               /\ update_menu_item(Current, 3, m, data).code = BadRequest
        /\ \E data \in CatalogUpdateData :
               /\ has(data, "name") /\ data.name # menu[m].name
               /\ data.has_price /\ data.price >= 0 /\ data.price # menu[m].price
               /\ has(data, "category") /\ lower(data.category) \notin FourCategories
               /\ update_menu_item(Current, 3, m, data).code = BadRequest

\* ------------------------------------------------------ requests in flight

\* The thread's request is of the kind and ends with this step.
Ends(t, kind) == requests[t].kind = kind /\ requests'[t] = Idle

\* The lines this step inserts.
Inserted == DOMAIN lines' \ DOMAIN lines

\* C21: a create_order that succeeds creates one line per entry of the
\* request, in the order of the entries and without merging entries that name
\* the same menu item: each line carries the menu item and the quantity of its
\* entry, and as unit_price a price at which the catalog offered the item
\* during the request (the catalog price at creation when the catalog did not
\* change meanwhile).
C21_OneLinePerEntry ==
    [][\A t \in Threads :
          Ends(t, "create_order") /\ DOMAIN orders' # DOMAIN orders =>
              LET entries == requests[t].items
                  o == NewId(orders)
                  base == NewId(lines) - 1
              IN  /\ Inserted = {base + i : i \in 1..Len(entries)}
                  /\ {l \in DOMAIN lines' : lines'[l].order_id = o} = Inserted
                  /\ \A i \in 1..Len(entries) :
                         /\ lines'[base + i].menu_item_id = entries[i].menu_item_id
                         /\ lines'[base + i].quantity = entries[i].quantity
                         /\ <<entries[i].menu_item_id, lines'[base + i].unit_price>>
                                \in requests[t].seen]_vars

\* An order with two lines for the same menu item, of quantities 1 and 2.
C21_Witness ==
    \E k, l \in DOMAIN lines :
        /\ k # l
        /\ lines[k].order_id = lines[l].order_id
        /\ lines[k].order_id \in DOMAIN orders
        /\ lines[k].menu_item_id = lines[l].menu_item_id
        /\ lines[k].quantity = 1
        /\ lines[l].quantity = 2

\* C26: two add_order_item requests on the same pending order and the same
\* existing line lose no update: each request that answers 200 leaves the
\* line's quantity larger by its own quantity than it was persisted, however
\* its read of the line and its commit interleave with the other request's.
C26_NoLostUpdate ==
    [][\A t \in Threads :
          (/\ Ends(t, "add_order_item")
           /\ requests[t].existing_item \in DOMAIN lines \cap DOMAIN lines') =>
              lines'[requests[t].existing_item].quantity =
                  lines[requests[t].existing_item].quantity + requests[t].quantity]_vars

\* Two add_order_item requests in flight that have read the same line at the
\* same quantity.
C26_Witness ==
    /\ requests[1].kind = "add_order_item"
    /\ requests[2].kind = "add_order_item"
    /\ requests[1].existing_item # NoRow
    /\ requests[1].existing_item = requests[2].existing_item
    /\ requests[1].existing_quantity = requests[2].existing_quantity
    /\ requests[1].existing_item \in DOMAIN lines

\* The rows of the order's lines in the table.
RowsOf(table, o) == [l \in {k \in DOMAIN table : table[k].order_id = o} |-> table[l]]

\* C27: no interleaving of add_order_item or remove_order_item with
\* update_order_status lets a line change commit after the order's status was
\* committed as non-pending: in a state where the persisted status of an order
\* is not pending, no step changes its lines.
C27_LinesFrozenUnlessPending ==
    [][\A o \in DOMAIN orders :
          orders[o].status # "pending" => RowsOf(lines', o) = RowsOf(lines, o)]_vars

\* An order whose status is persisted as confirmed while an add_order_item or
\* a remove_order_item that read it as pending has yet to commit.
C27_Witness ==
    \E t \in Threads :
        /\ requests[t].kind \in {"add_order_item", "remove_order_item"}
        /\ requests[t].order_id \in DOMAIN orders
        /\ orders[requests[t].order_id].status = "confirmed"

\* C28: add_order_item keeps at most one line per menu item on the order: it
\* inserts no line for a menu item for which the order has a line, also when
\* two requests for the same menu item interleave between the lookup of the
\* existing line and the commit.
C28_OneLinePerItem ==
    [][\A t \in Threads :
          Ends(t, "add_order_item") =>
              \A l \in Inserted :
                  ~\E k \in DOMAIN lines :
                      /\ lines[k].order_id = lines'[l].order_id
                      /\ lines[k].menu_item_id = lines'[l].menu_item_id]_vars

\* Two add_order_item requests in flight for the same order and menu item,
\* whose lookups both found no line.
C28_Witness ==
    /\ requests[1].kind = "add_order_item"
    /\ requests[2].kind = "add_order_item"
    /\ requests[1].existing_item = NoRow
    /\ requests[2].existing_item = NoRow
    /\ requests[1].order_id = requests[2].order_id
    /\ requests[1].menu_item_id = requests[2].menu_item_id

\* C29: every line that create_order or add_order_item creates fits one
\* state of the catalog: at one moment between the start of the request and
\* its commit the item was available at a catalog price equal to the line's
\* unit_price, whatever update_menu_item and toggle_availability requests
\* commit meanwhile.
C29_LineFromOneCatalogState ==
    [][\A t \in Threads :
          Ends(t, "create_order") \/ Ends(t, "add_order_item") =>
              \A l \in Inserted :
                  <<lines'[l].menu_item_id, lines'[l].unit_price>> \in requests[t].seen]_vars

\* An add_order_item about to insert a line at the price it read, after the
\* catalog has moved the item to another price and made it unavailable.
C29_Witness ==
    \E t \in Threads :
        /\ requests[t].kind = "add_order_item"
        /\ requests[t].existing_item = NoRow
        /\ requests[t].menu_item_id \in DOMAIN menu
        /\ menu[requests[t].menu_item_id].price # requests[t].menu_item.price
        /\ ~menu[requests[t].menu_item_id].is_available
        /\ requests[t].order_id \in DOMAIN orders

====
